---- MODULE Spec2Model ----
(***************************************************************************)
(* Model of the gltfio resource loader (ResourceLoader / BlobCache) and of *)
(* the gltfio Animator.                                                    *)
(*                                                                         *)
(*   Spec      the loader with every BlobCache method atomic.              *)
(*             loadResources advances one binding, dispatch or texture at  *)
(*             a time; upload-completion callbacks may run between its     *)
(*             steps; ~ResourceLoader runs between calls.                  *)
(*   FairSpec  Spec plus: every dispatched upload eventually completes.    *)
(*   SpecLoad  one loadResources call with its steps and result recorded   *)
(*             in lastCall; the loader is not destroyed.                   *)
(*   SpecConc  the same handlers interleaved at the granularity of the     *)
(*             single reads and writes of mPendingUploads and              *)
(*             mLoaderDestroyed (the fields are a plain int and bool).     *)
(*   SpecAnim  an Animator built from a two-sampler, two-channel source    *)
(*             animation, and applyAnimation called at whole times.        *)
(*             Floats are exact rationals; NaN is a separate value.        *)
(*   SpecImport the Animator built from animations whose first sampler and *)
(*             channel range over the component types, interpolation modes *)
(*             and target paths of glTF, followed through one              *)
(*             applyAnimation call.                                        *)
(*   SpecSkin  an asset with one or two skins and one updateBoneMatrices   *)
(*             call; matrices are words over named matrices.               *)
(***************************************************************************)
EXTENDS Integers, Sequences, FiniteSets, TLC

\* ------------------------------------------------------------------ bounds
MaxLoads == 2
MaxBindings == 2
MaxPrims == 1
MaxTextures == 2
MaxKeys == 3
MaxTime == 7
MaxImportKeys == 2
MaxJoints == 2

Assets == {"asset1", "asset2"}

\* The foreign execution contexts that run completion callbacks in SpecConc.
CallbackContexts == {"cb1", "cb2"}

\* The four destination fields of a BufferBinding; a binding is modelled by
\* the set of its fields that are non-null.
DestinationFields == {"vertexBuffer", "indexBuffer", "animationBuffer", "orientationBuffer"}

BufferBinding == SUBSET DestinationFields

VARIABLES
  loaderAlive,        \* the ResourceLoader object exists (its destructor has not started)
  pc,                 \* position of the loader's thread
  cur,                \* the running loadResources call: asset, its binding count, bindings and textures done
  reg,                \* SpecConc: the value the loader's thread read from mPendingUploads
  cb,                 \* SpecConc: per callback context, its position and the value it read
  mAssets,            \* BlobCache::mAssets
  mLoaderDestroyed,   \* BlobCache::mLoaderDestroyed
  mPendingUploads,    \* BlobCache::mPendingUploads
  cacheDeleted,       \* number of times `delete` ran on the BlobCache
  danglingUse,        \* a BlobCache member was accessed after the delete
  acquired,           \* per asset: calls of acquireSourceAsset
  released,           \* per asset: calls of releaseSourceAsset
  uploads,            \* per asset: vertex/index uploads dispatched, callback not yet fired
  quatUploads,        \* orientation uploads dispatched, callback (free) not yet fired
  lastCall,           \* SpecLoad: the observed loadResources call, its steps and result
  gltf,               \* the parsed glTF animation the Animator was built from
  animation,          \* AnimationImpl::animations[0], as the constructor built it
  transforms,         \* per node: the transform last given to setTransform
  applied,            \* the last applyAnimation call: its time and its setTransform calls
  mSkins,             \* FFilamentAsset::mSkins: joints, inverseBindMatrices, targets
  worldTransforms,    \* per node: what TransformManager::getWorldTransform returns
  bones               \* the setBones calls of the last updateBoneMatrices call

threadVars == <<loaderAlive, pc, cur, reg, cb>>

cacheVars == <<mAssets, mLoaderDestroyed, mPendingUploads, cacheDeleted, danglingUse,
               acquired, released>>

loaderVars == <<threadVars, cacheVars, uploads, quatUploads, lastCall>>

skinVars == <<mSkins, worldTransforms, bones>>

animVars == <<gltf, animation, transforms, applied, skinVars>>

vars == <<loaderVars, animVars>>

\* ------------------------------------------------------------- BlobCache
\* The BlobCache object and the assets it references, as one record.
Cache ==
  [mAssets |-> mAssets, mLoaderDestroyed |-> mLoaderDestroyed,
   mPendingUploads |-> mPendingUploads, cacheDeleted |-> cacheDeleted,
   danglingUse |-> danglingUse, acquired |-> acquired, released |-> released]

Install(c) ==
  /\ mAssets' = c.mAssets
  /\ mLoaderDestroyed' = c.mLoaderDestroyed
  /\ mPendingUploads' = c.mPendingUploads
  /\ cacheDeleted' = c.cacheDeleted
  /\ danglingUse' = c.danglingUse
  /\ acquired' = c.acquired
  /\ released' = c.released

CountOf(s, a) == Cardinality({i \in DOMAIN s : s[i] = a})

\* Any member access through the cache pointer: dangling once the cache is deleted.
Deref(c) == [c EXCEPT !.danglingUse = @ \/ c.cacheDeleted > 0]

DeleteCache_ReleasesDistinct(c) ==
  [c EXCEPT !.cacheDeleted = @ + 1,
            !.released = [a \in Assets |-> @[a] + (IF CountOf(c.mAssets, a) > 0 THEN 1 ELSE 0)]]

\* delete cache: ~BlobCache releases every registered asset.
DeleteCache(c) ==
  [c EXCEPT !.cacheDeleted = @ + 1,
            !.released = [a \in Assets |-> @[a] + CountOf(c.mAssets, a)]]

addAsset(c, asset) ==
  [Deref(c) EXCEPT !.mAssets = Append(@, asset), !.acquired[asset] = @ + 1]

addPendingUpload_NoCount(c) == Deref(c)

addPendingUpload(c) == [Deref(c) EXCEPT !.mPendingUploads = @ + 1]

onLoadedResource_IgnoresLoader(c) ==
  LET c1 == [Deref(c) EXCEPT !.mPendingUploads = @ - 1]
  IN IF c1.mPendingUploads = 0 THEN DeleteCache(c1) ELSE c1

onLoadedResource_NeverDeletes(c) == [Deref(c) EXCEPT !.mPendingUploads = @ - 1]

onLoadedResource(c) ==
  LET c1 == [Deref(c) EXCEPT !.mPendingUploads = @ - 1]
  IN IF c1.mPendingUploads = 0 /\ c1.mLoaderDestroyed THEN DeleteCache(c1) ELSE c1

onLoaderDestroyed_AlwaysDeletes(c) == DeleteCache(Deref(c))

onLoaderDestroyed_AlwaysDefers(c) == [Deref(c) EXCEPT !.mLoaderDestroyed = TRUE]

onLoaderDestroyed(c) ==
  IF Deref(c).mPendingUploads = 0
  THEN DeleteCache(Deref(c))
  ELSE [Deref(c) EXCEPT !.mLoaderDestroyed = TRUE]

\* --------------------------------------------------------- loadResources
\* The branch the binding loop takes for a binding (the if / else-if chain).
bindingBranch(bb) ==
  IF "vertexBuffer" \in bb THEN "setBufferAt"
  ELSE IF "indexBuffer" \in bb THEN "setBuffer"
  ELSE IF "animationBuffer" \in bb THEN "memcpyAnimation"
  ELSE IF "orientationBuffer" \in bb THEN "memcpyOrientation"
  ELSE "malformedBinding"

IsUpload(branch) == branch \in {"setBufferAt", "setBuffer"}

NoCall == [result |-> "none", steps |-> <<>>, notExactlyOne |-> FALSE]

Idle == [asset |-> "none", n |-> 0, i |-> 0, j |-> 0, branch |-> "none"]

\* What SpecLoad observes of a step: the operation, whether it ends the call and
\* how, and whether the binding it handled had other than one destination set.
Observe(trace, op, result, odd) ==
  lastCall' = IF trace
              THEN [result |-> result, steps |-> Append(lastCall.steps, op),
                    notExactlyOne |-> lastCall.notExactlyOne \/ odd]
              ELSE lastCall

BindingsDone_Early(c) == TRUE

\* The binding loop's exit test: for (i = 0, n = getBufferBindingCount(); i < n; ++i).
BindingsDone(c) == c.i >= c.n

\* loadResources up to the result of cgltf_load_buffers; `n` is the asset's
\* number of buffer bindings.
BeginLoad(trace) ==
  /\ pc = "idle"
  /\ loaderAlive
  /\ Len(mAssets) < MaxLoads
  /\ \E asset \in Assets, loadOk \in BOOLEAN, n \in 0..MaxBindings :
       /\ Install(addAsset(Cache, asset))
       /\ IF loadOk
          THEN /\ pc' = "bindings"
               /\ cur' = [Idle EXCEPT !.asset = asset, !.n = n]
               /\ Observe(trace, "loadBuffers", "running", FALSE)
          ELSE /\ pc' = "idle"
               /\ cur' = Idle
               /\ Observe(trace, "loadBuffersFailed", "false", FALSE)
  /\ UNCHANGED <<loaderAlive, reg, cb, uploads, quatUploads>>
  /\ UNCHANGED animVars

\* Where the loop goes after a binding: the malformed branch returns false.
AfterBinding_NoReturn(branch) == IF IsUpload(branch) THEN "dispatch" ELSE "bindings"

AfterBinding(branch) ==
  IF branch = "malformedBinding" THEN "idle"
  ELSE IF IsUpload(branch) THEN "dispatch"
  ELSE "bindings"

\* One iteration of the binding loop, up to the dispatch of an upload.
LoadBinding(trace) ==
  /\ pc = "bindings"
  /\ ~BindingsDone(cur)
  /\ \E bb \in BufferBinding :
       LET branch == bindingBranch(bb)
           odd == Cardinality(bb) # 1
       IN /\ pc' = AfterBinding(branch)
          /\ cur' = IF pc' = "idle" THEN Idle
                    ELSE [cur EXCEPT !.i = @ + 1,
                                     !.branch = IF IsUpload(branch) THEN branch ELSE "none"]
          /\ IF IsUpload(branch)
             THEN /\ Install(addPendingUpload(Cache))
                  /\ Observe(trace, "addPendingUpload", "running", odd)
             ELSE /\ UNCHANGED cacheVars
                  /\ Observe(trace, branch,
                             IF branch = "malformedBinding" THEN "false" ELSE "running", odd)
  /\ UNCHANGED <<loaderAlive, reg, cb, uploads, quatUploads>>
  /\ UNCHANGED animVars

\* setBufferAt / setBuffer with a descriptor whose callback is onLoadedResource:
\* the upload reads the asset's source blob until the callback fires.
DispatchUpload(trace) ==
  /\ pc = "dispatch"
  /\ uploads' = [uploads EXCEPT ![cur.asset] = @ + 1]
  /\ pc' = "bindings"
  /\ cur' = [cur EXCEPT !.branch = "none"]
  /\ Observe(trace, cur.branch, "running", FALSE)
  /\ UNCHANGED <<loaderAlive, reg, cb, cacheVars, quatUploads>>
  /\ UNCHANGED animVars

\* The end of the binding loop and the orientation step: computeTangents runs
\* when mOrientationBuffer is not empty and uploads one quaternion buffer per
\* primitive that has normals, in a descriptor whose callback is free.
ComputeTangents(trace) ==
  /\ pc = "bindings"
  /\ BindingsDone(cur)
  /\ \E hasOrientation \in BOOLEAN, prims \in 0..MaxPrims :
       IF hasOrientation
       THEN /\ quatUploads' = quatUploads + prims
            /\ Observe(trace, IF prims > 0 THEN "computeTangentsUpload" ELSE "computeTangents",
                       "running", FALSE)
       ELSE /\ prims = 0
            /\ quatUploads' = quatUploads
            /\ Observe(trace, "noTangents", "running", FALSE)
  /\ pc' = "textures"
  /\ UNCHANGED <<loaderAlive, cur, reg, cb, cacheVars, uploads>>
  /\ UNCHANGED animVars

\* One iteration of the texture loop.
DecodeTexture(trace) ==
  /\ pc = "textures"
  /\ cur.j < MaxTextures
  /\ \E decoded \in BOOLEAN :
       IF decoded
       THEN /\ pc' = "textures"
            /\ cur' = [cur EXCEPT !.j = @ + 1]
            /\ Observe(trace, "decodeTexture", "running", FALSE)
       ELSE /\ pc' = "idle"
            /\ cur' = Idle
            /\ Observe(trace, "decodeFailed", "false", FALSE)
  /\ UNCHANGED <<loaderAlive, reg, cb, cacheVars, uploads, quatUploads>>
  /\ UNCHANGED animVars

\* return true
FinishLoad(trace) ==
  /\ pc = "textures"
  /\ pc' = "idle"
  /\ cur' = Idle
  /\ Observe(trace, "return", "true", FALSE)
  /\ UNCHANGED <<loaderAlive, reg, cb, cacheVars, uploads, quatUploads>>
  /\ UNCHANGED animVars

\* The completion callback of one outstanding vertex/index upload.
UploadCompleted ==
  /\ \E a \in Assets :
       /\ uploads[a] > 0
       /\ uploads' = [uploads EXCEPT ![a] = @ - 1]
  /\ Install(onLoadedResource(Cache))
  /\ UNCHANGED <<threadVars, quatUploads, lastCall>>
  /\ UNCHANGED animVars

\* The completion callback (free) of one outstanding orientation upload.
QuatUploadCompleted ==
  /\ quatUploads > 0
  /\ quatUploads' = quatUploads - 1
  /\ UNCHANGED <<threadVars, cacheVars, uploads, lastCall>>
  /\ UNCHANGED animVars

\* ResourceLoader::~ResourceLoader
DestroyLoader ==
  /\ pc = "idle"
  /\ loaderAlive
  /\ loaderAlive' = FALSE
  /\ pc' = "dead"
  /\ Install(onLoaderDestroyed(Cache))
  /\ UNCHANGED <<cur, reg, cb, uploads, quatUploads, lastCall>>
  /\ UNCHANGED animVars

\* -------------------------------------------------------------- Animator
\* Floats are modelled by exact rationals n/d (d > 0) plus NaN; time keys and
\* times are whole numbers of ticks.
RECURSIVE GCD(_, _)
GCD(a, b) == IF b = 0 THEN a ELSE GCD(b, a % b)

Abs(x) == IF x < 0 THEN -x ELSE x

NaN == [nan |-> TRUE, n |-> 0, d |-> 1]

Frac(n, d) ==
  LET g == GCD(Abs(n), Abs(d))
      sgn == IF d < 0 THEN -1 ELSE 1
  IN [nan |-> FALSE, n |-> sgn * (n \div g), d |-> sgn * (d \div g)]

Num(x) == Frac(x, 1)

\* C fmod: the result has the sign of x and magnitude below |y|; fmod(x, 0) is NaN.
fmod(x, y) ==
  IF y = 0 THEN NaN
  ELSE IF x >= 0 THEN Num(x % Abs(y))
  ELSE Num(-((-x) % Abs(y)))

MapPut_KeepsFirst(m, k, v) ==
  IF \E q \in DOMAIN m : m[q].time = k THEN m
  ELSE SelectSeq(m, LAMBDA e : e.time < k) \o <<[time |-> k, index |-> v]>>
         \o SelectSeq(m, LAMBDA e : e.time > k)

\* TimeValues = std::map<float, size_t>: a sequence of entries, ascending by key.
MapPut(m, k, v) ==
  SelectSeq(m, LAMBDA e : e.time < k) \o <<[time |-> k, index |-> v]>>
    \o SelectSeq(m, LAMBDA e : e.time > k)

\* createSampler: dst.times[timelineFloats[i]] = i, for i = 0 .. count - 1.
RECURSIVE copyTimes(_, _, _)
copyTimes(m, input, i) ==
  IF i >= Len(input) THEN m
  ELSE copyTimes(MapPut(m, input[i + 1], i), input, i + 1)

\* createSampler: the source values as floats. convert32F copies them verbatim;
\* the default branch of the switch (here r_32u and invalid) logs and returns
\* before anything is converted. The packed integer types (r_8 .. r_16u) are
\* not among the accessors this model draws.
convertValues(src) ==
  CASE src.componentType = "r_32f" -> src.output
    [] src.componentType \in {"r_32u", "invalid"} -> <<>>

\* The interpolation mode stays at the zero of the value-initialized Sampler
\* (LINEAR) when createSampler returns early.
createSampler(src) ==
  [times |-> copyTimes(<<>>, src.input, 0),
   values |-> convertValues(src),
   interpolation |-> IF src.componentType # "r_32f" THEN "LINEAR"
                     ELSE CASE src.interpolation = "linear" -> "LINEAR"
                            [] src.interpolation = "step" -> "STEP"
                            [] src.interpolation = "cubic_spline" -> "CUBIC"]

\* setTransformType; an unsupported path leaves the zero of the
\* value-initialized Channel, which is TRANSLATION.
setTransformType(path) ==
  CASE path = "translation" -> "TRANSLATION"
    [] path = "rotation" -> "ROTATION"
    [] path = "scale" -> "SCALE"
    [] OTHER -> "TRANSLATION"

Max_Second(a, b) == b

Max(a, b) == IF a > b THEN a ELSE b

\* The constructor's sampler loop: the duration is extended by every sampler
\* that has more than one key.
RECURSIVE importSamplers(_, _, _)
importSamplers(anim, srcSamplers, j) ==
  IF j > Len(srcSamplers) THEN anim
  ELSE
    LET dstSampler == createSampler(srcSamplers[j])
        duration == IF Len(dstSampler.times) > 1
                    THEN Max(anim.duration, dstSampler.times[Len(dstSampler.times)].time)
                    ELSE anim.duration
    IN importSamplers([anim EXCEPT !.duration = duration,
                                   !.samplers = Append(@, dstSampler)],
                      srcSamplers, j + 1)

importChannel(srcChannel) ==
  [sourceData |-> srcChannel.sampler,
   targetInstance |-> srcChannel.node,
   transformType |-> setTransformType(srcChannel.path)]

\* Animator::Animator, for one glTF animation.
Animator(srcAnim) ==
  LET a == importSamplers([duration |-> 0, samplers |-> <<>>, channels |-> <<>>],
                          srcAnim.samplers, 1)
  IN [a EXCEPT !.channels = [c \in DOMAIN srcAnim.channels |->
                               importChannel(srcAnim.channels[c])]]

\* std::map::lower_bound: the position of the first key not less than the time,
\* Len + 1 for end(). Comparing with NaN breaks the ordering the map requires,
\* so there the result is whatever position the caller's `pick` names.
lower_bound(times, time, pick) ==
  IF time.nan THEN pick
  ELSE LET ge == {q \in DOMAIN times : ~(times[q].time * time.d < time.n)}
       IN IF ge = {} THEN Len(times) + 1
          ELSE CHOOSE q \in ge : \A r \in ge : q <= r

\* The two keys applyAnimation interpolates between.
selectKeys(times, iter) ==
  IF iter = Len(times) + 1 THEN [prev |-> Len(times), next |-> 1]
  ELSE IF iter = 1 THEN [prev |-> iter, next |-> iter]
  ELSE [prev |-> iter - 1, next |-> iter]

\* float t = interval == 0 ? 0.0f : ((time - prevTime) / interval);
interpolant(time, prevTime, nextTime, duration) ==
  LET d0 == nextTime - prevTime
      interval == IF d0 < 0 THEN d0 + duration ELSE d0
  IN IF interval = 0 THEN Num(0)
     ELSE IF time.nan THEN NaN
     ELSE Frac(time.n - prevTime * time.d, interval * time.d)

lerp_Swapped(a, b, t) ==
  IF t.nan THEN NaN ELSE Frac((t.d - t.n) * b + t.n * a, t.d)

\* ((1 - t) * a) + (t * b)
lerp(a, b, t) ==
  IF t.nan THEN NaN ELSE Frac((t.d - t.n) * a + t.n * b, t.d)

\* math::slerp is not part of the sources: a term in its arguments, with the
\* two end points the specification names (t = 0 gives a, t = 1 gives b).
slerp(a, b, t) ==
  IF t.nan THEN NaN
  ELSE IF t.n = 0 THEN Num(a)
  ELSE IF t.n = t.d THEN Num(b)
  ELSE [nan |-> FALSE, n |-> 0, d |-> 1, arc |-> <<a, b, t.n, t.d>>]

\* srcVec3[index] / srcQuat[index]: element `index` of the value array. The
\* code does not compare the index with the array's size; a read past the end
\* (always, when the array is empty) is undefined: `junk` says whether it
\* faults and, if not, which value the memory holds.
OutOfRange(values, index) == (index + 1) \notin DOMAIN values

readValue(values, index, junk) ==
  IF OutOfRange(values, index) THEN junk.v ELSE values[index + 1]

\* The body of applyAnimation's channel loop: the setTransform call it makes,
\* or the fault that ends the call.
evalChannel(anim, c, time, pick, junk) ==
  LET channel == anim.channels[c]
      sampler == anim.samplers[channel.sourceData]
      times == sampler.times
      keys == selectKeys(times, lower_bound(times, time, pick))
      prevTime == times[keys.prev].time
      nextTime == times[keys.next].time
      t == interpolant(time, prevTime, nextTime, anim.duration)
      prevIndex == times[keys.prev].index
      nextIndex == times[keys.next].index
      outOfRange == OutOfRange(sampler.values, prevIndex) \/ OutOfRange(sampler.values, nextIndex)
      a == readValue(sampler.values, prevIndex, junk)
      b == readValue(sampler.values, nextIndex, junk)
  IN [channel |-> c, node |-> channel.targetInstance,
      prev |-> keys.prev, next |-> keys.next,
      prevIndex |-> prevIndex, nextIndex |-> nextIndex, t |-> t,
      outOfRange |-> outOfRange,
      fault |-> outOfRange /\ junk.fault,
      xform |-> IF outOfRange /\ junk.fault THEN [kind |-> "none", v |-> NaN]
                ELSE
                CASE channel.transformType = "SCALE" ->
                       [kind |-> "scale", v |-> lerp(a, b, t)]
                  [] channel.transformType = "TRANSLATION" ->
                       [kind |-> "translate", v |-> lerp(a, b, t)]
                  [] channel.transformType = "ROTATION" ->
                       [kind |-> "rotate", v |-> slerp(a, b, t)]]

\* Animator::applyAnimation: the setTransform calls, in channel order. `pick`
\* gives, per channel, the lower_bound position used when the time is NaN;
\* `junk` is the outcome of a read past the end of a value array. A fault ends
\* the loop.
RECURSIVE channelLoop(_, _, _, _, _, _)
channelLoop(anim, time, pick, junk, c, calls) ==
  IF c > Len(anim.channels) THEN calls
  ELSE IF Len(anim.samplers[anim.channels[c].sourceData].times) < 2
       THEN channelLoop(anim, time, pick, junk, c + 1, calls)
       ELSE LET call == evalChannel(anim, c, time, pick[c], junk)
            IN IF call.fault THEN Append(calls, call)
               ELSE channelLoop(anim, time, pick, junk, c + 1, Append(calls, call))

applyAnimation(anim, time, pick, junk) ==
  channelLoop(anim, fmod(time, anim.duration), pick, junk, 1, <<>>)

RECURSIVE setTransforms_KeepsFirst(_, _, _)
setTransforms_KeepsFirst(tm, calls, k) ==
  IF k > Len(calls) \/ calls[k].fault THEN tm
  ELSE IF \E i \in 1..(k - 1) : calls[i].node = calls[k].node
       THEN setTransforms_KeepsFirst(tm, calls, k + 1)
       ELSE setTransforms_KeepsFirst([tm EXCEPT ![calls[k].node] = calls[k].xform], calls, k + 1)

\* TransformManager::setTransform, call after call.
RECURSIVE setTransforms(_, _, _)
setTransforms(tm, calls, k) ==
  IF k > Len(calls) \/ calls[k].fault THEN tm
  ELSE setTransforms([tm EXCEPT ![calls[k].node] = calls[k].xform], calls, k + 1)

\* mat4f values are words over named matrices: the identity is the empty
\* word and the product of two matrices is their concatenation, so products
\* are associative, the identity is neutral and the order of the factors
\* shows. The math library is not part of the sources.
Identity == <<>>

MatMul(a, b) == a \o b

\* boneMatrices.resize(n): the first n elements stay, new ones are
\* default-constructed.
resize(v, n) == [i \in 1..n |-> IF i <= Len(v) THEN v[i] ELSE Identity]

\* for (joint : skin.joints) boneMatrices[boneIndex++] = getWorldTransform(joint);
RECURSIVE readJoints(_, _, _, _)
readJoints(boneMatrices, joints, world, boneIndex) ==
  IF boneIndex > Len(joints) THEN boneMatrices
  ELSE readJoints([boneMatrices EXCEPT ![boneIndex] = world[joints[boneIndex]]],
                  joints, world, boneIndex + 1)

RECURSIVE applyInverseBind_MissesLast(_, _, _)
applyInverseBind_MissesLast(boneMatrices, inverseBindMatrices, boneIndex) ==
  IF boneIndex >= Len(inverseBindMatrices) THEN boneMatrices
  ELSE applyInverseBind_MissesLast(
         [boneMatrices EXCEPT ![boneIndex] = MatMul(@, inverseBindMatrices[boneIndex])],
         inverseBindMatrices, boneIndex + 1)

\* for (m : skin.inverseBindMatrices) boneMatrices[boneIndex++] *= m;
\* The loop runs over the inverse-bind matrices and assumes there are no more
\* of them than joints (the two arrays of a Skin have the same length).
RECURSIVE applyInverseBind(_, _, _)
applyInverseBind(boneMatrices, inverseBindMatrices, boneIndex) ==
  IF boneIndex > Len(inverseBindMatrices) THEN boneMatrices
  ELSE applyInverseBind(
         [boneMatrices EXCEPT ![boneIndex] = MatMul(@, inverseBindMatrices[boneIndex])],
         inverseBindMatrices, boneIndex + 1)

\* The bone matrices of one skin; `boneMatrices` is the vector as the skin
\* before left it.
skinBones(boneMatrices, skin, world) ==
  applyInverseBind(readJoints(resize(boneMatrices, Len(skin.joints)), skin.joints, world, 1),
                   skin.inverseBindMatrices, 1)

\* for (target : skin.targets) setBones(target, boneMatrices.data(), boneMatrices.size());
setBones(calls, s, skin, boneMatrices) ==
  calls \o [k \in DOMAIN skin.targets |->
             [skin |-> s, target |-> skin.targets[k],
              matrices |-> boneMatrices, count |-> Len(boneMatrices)]]

\* Animator::updateBoneMatrices: the setBones calls, in order.
RECURSIVE skinLoop(_, _, _, _, _)
skinLoop(skins, world, s, boneMatrices, calls) ==
  IF s > Len(skins) THEN calls
  ELSE LET computed == skinBones(boneMatrices, skins[s], world)
       IN skinLoop(skins, world, s + 1, computed, setBones(calls, s, skins[s], computed))

updateBoneMatrices(skins, world) == skinLoop(skins, world, 1, <<>>, <<>>)

\* ---------------------------------------------------------------- inputs
RECURSIVE SeqsUpTo(_, _)
SeqsUpTo(S, n) ==
  IF n = 0 THEN {<<>>}
  ELSE LET shorter == SeqsUpTo(S, n - 1)
       IN shorter \cup {Append(q, x) : q \in {r \in shorter : Len(r) = n - 1}, x \in S}

Nodes == {"node1", "node2"}

\* Time keys of the first sampler, in ticks: a negative key, and room between
\* two keys for a time that is no key.
KeyTimes == {-2, 0, 2, 4}

\* Time arrays of the second sampler: no key, one key, or a clip longer than
\* any the first sampler can hold.
LongClips == {<<>>, <<6>>, <<0, 6>>}

Times == (0 - MaxTime)..MaxTime

\* The float stored at element i of the output accessor of sampler j.
SourceValue(j, i) == 10 * j + i

SrcSampler(j, input) ==
  [input |-> input, output |-> [i \in DOMAIN input |-> SourceValue(j, i - 1)],
   componentType |-> "r_32f", interpolation |-> "linear"]

NoPick(anim) == [c \in DOMAIN anim.channels |-> 1]

\* Per channel, any position of its sampler's map, end() included.
Picks(anim) ==
  {pick \in [DOMAIN anim.channels -> 1..(MaxKeys + 1)] :
     \A c \in DOMAIN anim.channels :
        pick[c] <= Len(anim.samplers[anim.channels[c].sourceData].times) + 1}

\* The outcomes of a read past the end of a value array.
NoJunk == [fault |-> FALSE, v |-> 0]

JunkOutcomes == {[fault |-> TRUE, v |-> 0], NoJunk, [fault |-> FALSE, v |-> 77]}

\* The call reads past the end of a value array exactly when an evaluated
\* channel's sampler has fewer values than its largest stored index needs.
Junk(anim) ==
  IF \E c \in DOMAIN anim.channels :
       LET sampler == anim.samplers[anim.channels[c].sourceData]
       IN Len(sampler.times) >= 2 /\ Len(sampler.values) < Len(sampler.times)
  THEN JunkOutcomes ELSE {NoJunk}

\* The transform an instance has before any applyAnimation call.
Rest == [kind |-> "rest", v |-> Num(0)]

NotApplied == [time |-> 0, calls |-> <<>>, called |-> FALSE]

InitAnimIdle ==
  /\ gltf = [samplers |-> <<>>, channels |-> <<>>]
  /\ animation = Animator(gltf)
  /\ transforms = [n \in Nodes |-> Rest]
  /\ applied = NotApplied

\* An animation of two samplers and two channels, the Animator built from it.
InitAnim ==
  /\ \E in1 \in SeqsUpTo(KeyTimes, MaxKeys), in2 \in LongClips,
        path1 \in {"translation", "rotation", "scale"}, node2 \in Nodes :
       gltf = [samplers |-> <<SrcSampler(1, in1), SrcSampler(2, in2)>>,
               channels |-> <<[sampler |-> 1, node |-> "node1", path |-> path1],
                              [sampler |-> 2, node |-> node2, path |-> "translation"]>>]
  /\ animation = Animator(gltf)
  /\ transforms = [n \in Nodes |-> Rest]
  /\ applied = NotApplied

\* Time keys, component types, interpolation modes and target paths of the
\* animations SpecImport builds its Animator from: keys on both sides of 0,
\* a value accessor createSampler converts and two it does not, and every
\* member of cgltf_interpolation_type and cgltf_animation_path_type.
ImportKeys == {-4, -2, 0, 2}

ComponentTypes == {"r_32f", "r_32u", "invalid"}

InterpolationTypes == {"linear", "step", "cubic_spline"}

PathTypes == {"invalid", "translation", "rotation", "scale", "weights"}

ImportClips == {<<>>, <<0, 6>>}

\* An animation of two samplers and two channels on two nodes: the first
\* sampler and channel drawn from the sets above, the second a plain
\* translation.
InitImport ==
  /\ \E in1 \in SeqsUpTo(ImportKeys, MaxImportKeys), in2 \in ImportClips,
        componentType \in ComponentTypes, interpolation \in InterpolationTypes,
        path1 \in PathTypes :
       gltf = [samplers |-> <<[SrcSampler(1, in1) EXCEPT !.componentType = componentType,
                                                         !.interpolation = interpolation],
                              SrcSampler(2, in2)>>,
               channels |-> <<[sampler |-> 1, node |-> "node1", path |-> path1],
                              [sampler |-> 2, node |-> "node2", path |-> "translation"]>>]
  /\ animation = Animator(gltf)
  /\ transforms = [n \in Nodes |-> Rest]
  /\ applied = NotApplied

\* The world transforms of the nodes, the inverse-bind matrices and the
\* renderables of the skins SpecSkin draws.
WorldMatrices == {Identity, <<"A">>, <<"B">>}

InverseBinds == {Identity, <<"P">>}

Renderables == {"renderable1", "renderable2"}

TargetLists == {<<>>, <<"renderable1">>, <<"renderable1", "renderable2">>}

\* A Skin: as many inverse-bind matrices as joints.
Skins ==
  {[joints |-> joints, inverseBindMatrices |-> inverseBindMatrices, targets |-> targets] :
     joints \in SeqsUpTo(Nodes, MaxJoints),
     inverseBindMatrices \in SeqsUpTo(InverseBinds, MaxJoints),
     targets \in TargetLists}

\* A second skin of the asset, or none: one joint, bound to the first
\* renderable again.
OtherSkins ==
  {<<>>, <<[joints |-> <<"node2">>, inverseBindMatrices |-> <<<<"Q">>>>,
           targets |-> <<"renderable1">>]>>}

NoBones == [calls |-> <<>>, called |-> FALSE]

\* An asset without skins: no joint has a world transform to read.
InitSkinIdle ==
  /\ mSkins = <<>>
  /\ worldTransforms = <<>>
  /\ bones = NoBones

InitSkin ==
  /\ \E skin \in Skins, others \in OtherSkins :
       /\ Len(skin.joints) = Len(skin.inverseBindMatrices)
       /\ mSkins = <<skin>> \o others
  /\ worldTransforms \in [Nodes -> WorldMatrices]
  /\ bones = NoBones

UpdateBoneMatrices ==
  /\ bones' = [calls |-> updateBoneMatrices(mSkins, worldTransforms), called |-> TRUE]
  /\ UNCHANGED <<mSkins, worldTransforms, gltf, animation, transforms, applied, loaderVars>>

ApplyAnimation ==
  /\ \E time \in Times, pick \in Picks(animation), junk \in Junk(animation) :
       /\ animation.duration # 0 => pick = NoPick(animation)
       /\ LET calls == applyAnimation(animation, time, pick, junk)
          IN /\ applied' = [time |-> time, calls |-> calls, called |-> TRUE]
             /\ transforms' = setTransforms(transforms, calls, 1)
  /\ UNCHANGED <<gltf, animation, loaderVars, skinVars>>

\* ------------------------------------------------------------------ Spec
InitLoader ==
  /\ loaderAlive = TRUE
  /\ pc = "idle"
  /\ cur = Idle
  /\ reg = 0
  /\ cb = [x \in CallbackContexts |-> [pc |-> "idle", reg |-> 0]]
  /\ mAssets = <<>>
  /\ mLoaderDestroyed = FALSE
  /\ mPendingUploads = 0
  /\ cacheDeleted = 0
  /\ danglingUse = FALSE
  /\ acquired = [a \in Assets |-> 0]
  /\ released = [a \in Assets |-> 0]
  /\ uploads = [a \in Assets |-> 0]
  /\ quatUploads = 0
  /\ lastCall = NoCall

Init == InitLoader /\ InitAnimIdle /\ InitSkinIdle

Next ==
  \/ BeginLoad(FALSE)
  \/ LoadBinding(FALSE)
  \/ DispatchUpload(FALSE)
  \/ ComputeTangents(FALSE)
  \/ DecodeTexture(FALSE)
  \/ FinishLoad(FALSE)
  \/ UploadCompleted
  \/ QuatUploadCompleted
  \/ DestroyLoader

Spec == Init /\ [][Next]_vars

\* Every dispatched upload eventually completes (the engine fires each callback).
FairSpec == Spec /\ WF_vars(UploadCompleted) /\ WF_vars(QuatUploadCompleted)

\* SpecLoad: the first loadResources call of a loader, observed step by step,
\* with the completion callbacks of the uploads it dispatched.
NextLoad ==
  \/ (mAssets = <<>> /\ BeginLoad(TRUE))
  \/ LoadBinding(TRUE)
  \/ DispatchUpload(TRUE)
  \/ ComputeTangents(TRUE)
  \/ DecodeTexture(TRUE)
  \/ FinishLoad(TRUE)
  \/ UploadCompleted
  \/ QuatUploadCompleted

SpecLoad == Init /\ [][NextLoad]_vars

\* SpecAnim: an Animator built from a glTF animation, and applyAnimation calls.
InitAnimator == InitLoader /\ InitAnim /\ InitSkinIdle

NextAnim == ApplyAnimation

SpecAnim == InitAnimator /\ [][NextAnim]_vars

InitImporter == InitLoader /\ InitImport /\ InitSkinIdle

\* SpecImport follows each Animator through its first applyAnimation call.
ApplyOnce == ~applied.called /\ ApplyAnimation

NextImport == ApplyOnce

SpecImport == InitImporter /\ [][NextImport]_vars

InitSkinner == InitLoader /\ InitAnimIdle /\ InitSkin

NextSkin == UpdateBoneMatrices

SpecSkin == InitSkinner /\ [][NextSkin]_vars

\* -------------------------------------------------------------- SpecConc
\* The BlobCache methods at the granularity of their reads and writes of
\* mPendingUploads and mLoaderDestroyed: both fields are plain (non-atomic)
\* members and no lock guards them.

\* One iteration of the binding loop; addPendingUpload begins with the read of
\* ++mPendingUploads.
ConcLoadBinding ==
  /\ pc = "bindings"
  /\ ~BindingsDone(cur)
  /\ \E bb \in BufferBinding :
       LET branch == bindingBranch(bb)
       IN IF IsUpload(branch)
          THEN /\ reg' = mPendingUploads
               /\ Install(Deref(Cache))
               /\ pc' = "addWrite"
               /\ cur' = [cur EXCEPT !.i = @ + 1, !.branch = branch]
          ELSE IF branch = "malformedBinding"
          THEN /\ pc' = "idle"
               /\ cur' = Idle
               /\ UNCHANGED <<reg, cacheVars>>
          ELSE /\ pc' = "bindings"
               /\ cur' = [cur EXCEPT !.i = @ + 1]
               /\ UNCHANGED <<reg, cacheVars>>
  /\ UNCHANGED <<loaderAlive, cb, uploads, quatUploads, lastCall>>
  /\ UNCHANGED animVars

\* The write of ++mPendingUploads.
ConcAddWrite ==
  /\ pc = "addWrite"
  /\ Install([Deref(Cache) EXCEPT !.mPendingUploads = reg + 1])
  /\ pc' = "dispatch"
  /\ UNCHANGED <<loaderAlive, cur, reg, cb, uploads, quatUploads, lastCall>>
  /\ UNCHANGED animVars

\* onLoadedResource starts in a callback context: the read of --mPendingUploads.
ConcCallbackRead(x) ==
  /\ cb[x].pc = "idle"
  /\ \E a \in Assets :
       /\ uploads[a] > 0
       /\ uploads' = [uploads EXCEPT ![a] = @ - 1]
  /\ cb' = [cb EXCEPT ![x] = [pc |-> "write", reg |-> mPendingUploads]]
  /\ Install(Deref(Cache))
  /\ UNCHANGED <<loaderAlive, pc, cur, reg, quatUploads, lastCall>>
  /\ UNCHANGED animVars

\* The write of --mPendingUploads and the test of its result against 0.
ConcCallbackWrite(x) ==
  /\ cb[x].pc = "write"
  /\ Install([Deref(Cache) EXCEPT !.mPendingUploads = cb[x].reg - 1])
  /\ cb' = [cb EXCEPT ![x].pc = IF cb[x].reg - 1 = 0 THEN "test" ELSE "idle"]
  /\ UNCHANGED <<loaderAlive, pc, cur, reg, uploads, quatUploads, lastCall>>
  /\ UNCHANGED animVars

\* The read of mLoaderDestroyed and the delete it guards.
ConcCallbackTest(x) ==
  /\ cb[x].pc = "test"
  /\ Install(IF mLoaderDestroyed THEN DeleteCache(Deref(Cache)) ELSE Deref(Cache))
  /\ cb' = [cb EXCEPT ![x].pc = "idle"]
  /\ UNCHANGED <<loaderAlive, pc, cur, reg, uploads, quatUploads, lastCall>>
  /\ UNCHANGED animVars

\* ~ResourceLoader calls onLoaderDestroyed: the read of mPendingUploads.
ConcDestroyRead ==
  /\ pc = "idle"
  /\ loaderAlive
  /\ loaderAlive' = FALSE
  /\ reg' = mPendingUploads
  /\ Install(Deref(Cache))
  /\ pc' = "destroying"
  /\ UNCHANGED <<cur, cb, uploads, quatUploads, lastCall>>
  /\ UNCHANGED animVars

\* onLoaderDestroyed after its test: delete this, or the write of mLoaderDestroyed.
ConcDestroyAct ==
  /\ pc = "destroying"
  /\ Install(IF reg = 0
             THEN DeleteCache(Deref(Cache))
             ELSE [Deref(Cache) EXCEPT !.mLoaderDestroyed = TRUE])
  /\ pc' = "dead"
  /\ UNCHANGED <<loaderAlive, cur, reg, cb, uploads, quatUploads, lastCall>>
  /\ UNCHANGED animVars

NextConc ==
  \/ BeginLoad(FALSE)
  \/ ConcLoadBinding
  \/ ConcAddWrite
  \/ DispatchUpload(FALSE)
  \/ ComputeTangents(FALSE)
  \/ DecodeTexture(FALSE)
  \/ FinishLoad(FALSE)
  \/ \E x \in CallbackContexts : ConcCallbackRead(x)
  \/ \E x \in CallbackContexts : ConcCallbackWrite(x)
  \/ \E x \in CallbackContexts : ConcCallbackTest(x)
  \/ QuatUploadCompleted
  \/ ConcDestroyRead
  \/ ConcDestroyAct

SpecConc == Init /\ [][NextConc]_vars

\* ================================================================ claims
RECURSIVE SumOver(_, _)
SumOver(f, S) ==
  IF S = {} THEN 0
  ELSE LET a == CHOOSE x \in S : TRUE IN f[a] + SumOver(f, S \ {a})

\* Vertex/index uploads dispatched whose onLoadedResource callback has not fired.
TotalUploads == SumOver(uploads, Assets)

\* The loader's thread is between addPendingUpload and the dispatch it precedes.
Dispatching == IF pc = "dispatch" THEN 1 ELSE 0

\* C1: with the handlers serialized, the BlobCache is deleted at most once, and
\* only when the loader has been destroyed and the pending count is zero: never
\* while the loader is alive, never while pending > 0.
C1_DeletedOnceAfterBoth ==
  /\ cacheDeleted <= 1
  /\ cacheDeleted = 1 => (~loaderAlive /\ mPendingUploads = 0 /\ TotalUploads = 0)
  /\ ~danglingUse

\* C1 witness: the loader was destroyed with uploads pending, and the last
\* completion deleted the cache.
C1_Witness == cacheDeleted = 1 /\ mLoaderDestroyed /\ ~loaderAlive

\* C2: with the callbacks and the loader's thread interleaved at the reads and
\* writes of mPendingUploads and mLoaderDestroyed there is no double delete, no
\* access after the delete, no leak (loader destroyed, every upload completed,
\* cache never deleted) and no lost counter update.
Quiescent == pc \in {"idle", "dead"} /\ \A x \in CallbackContexts : cb[x].pc = "idle"

C2_NoConcurrencyHazard ==
  /\ cacheDeleted <= 1
  /\ ~danglingUse
  /\ (Quiescent /\ pc = "dead" /\ TotalUploads = 0) => cacheDeleted = 1
  /\ (Quiescent /\ cacheDeleted = 0) => mPendingUploads = TotalUploads

\* C3: once the loader is destroyed, and given that every dispatched upload
\* eventually completes, the BlobCache is eventually deleted (exactly once).
C3_EventuallyDeleted == (~loaderAlive) ~> (cacheDeleted = 1)

\* C3 witness: the deferred path ran to its end with two registered assets.
C3_Witness == ~loaderAlive /\ mLoaderDestroyed /\ cacheDeleted = 1 /\ Len(mAssets) = 2

\* C4 as stated: the counter equals the number of asynchronous uploads that
\* loadResources dispatched and whose completion callback has not fired, the
\* orientation uploads of computeTangents included (the increment precedes the
\* dispatch, so the counter is one ahead between the two).
C4_Original == mPendingUploads = TotalUploads + quatUploads + Dispatching

\* C4 amended: the counter equals the number of outstanding vertex/index
\* uploads (one ahead between addPendingUpload and the dispatch), so it is
\* never zero or negative while one of them is outstanding; the orientation
\* uploads are not counted.
C4_CountsBufferUploads ==
  /\ mPendingUploads = TotalUploads + Dispatching
  /\ mPendingUploads >= 0
  /\ TotalUploads > 0 => mPendingUploads > 0

\* C4 witness: buffer uploads and an orientation upload are outstanding together.
C4_Witness == TotalUploads > 0 /\ quatUploads > 0 /\ mPendingUploads = TotalUploads

\* C5: releaseSourceAsset is never called on an asset while an upload reading
\* its source data is outstanding, also when the loader is destroyed first.
C5_NoReleaseWhileUploading == \A a \in Assets : uploads[a] > 0 => released[a] = 0

\* C5 witness: the loader is gone, an upload of an acquired asset is outstanding.
C5_Witness ==
  ~loaderAlive /\ \E a \in Assets : uploads[a] > 0 /\ acquired[a] > 0 /\ released[a] = 0

\* C6: a loadResources call that met a binding without exactly one destination
\* field set (none, or two or more) returns false.
C6_NotExactlyOneFails ==
  (lastCall.notExactlyOne /\ lastCall.result # "running") => lastCall.result = "false"

\* C7: loadResources is fail-fast: the failing step (buffer load, malformed
\* binding, texture decode) is the last step of the call and the only failing
\* one, the call returns false there, and the uploads dispatched before it
\* stay pending (no roll-back) until their callbacks complete them.
FailingSteps == {"loadBuffersFailed", "malformedBinding", "decodeFailed"}

C7_FailFast ==
  /\ [](/\ \A k \in DOMAIN lastCall.steps :
             lastCall.steps[k] \in FailingSteps
               <=> (k = Len(lastCall.steps) /\ lastCall.result = "false")
        /\ lastCall.result = "false" => (pc = "idle" /\ lastCall.steps # <<>>)
        /\ lastCall.result = "false" => mPendingUploads = TotalUploads)
  /\ [][/\ lastCall.result = "false" => lastCall' = lastCall
        /\ (lastCall.result # "false" /\ lastCall'.result = "false")
             => (mPendingUploads' = mPendingUploads /\ uploads' = uploads
                 /\ quatUploads' = quatUploads)]_vars

\* C7 witness: a call dispatched an upload, then failed decoding a texture, and
\* the upload's callback has completed it since.
C7_Witness ==
  /\ lastCall.result = "false"
  /\ \E k \in DOMAIN lastCall.steps : lastCall.steps[k] = "setBufferAt"
  /\ lastCall.steps[Len(lastCall.steps)] = "decodeFailed"
  /\ TotalUploads = 0 /\ mPendingUploads = 0

\* The sampler a channel reads.
SamplerOf(c) == animation.samplers[animation.channels[c].sourceData]

\* Every time key of the animation is >= 0, as glTF requires of its files.
KeysNonNegative ==
  \A j \in DOMAIN animation.samplers :
    \A q \in DOMAIN animation.samplers[j].times : animation.samplers[j].times[q].time >= 0

\* C8: periodicity. For a duration D > 0, applyAnimation at t and at t + k*D
\* (k any integer, positive or negative) selects the same keys and interpolant
\* for every channel and writes the same transforms. Stated for animations
\* whose time keys are all >= 0.
C8_Periodic ==
  (applied.called /\ animation.duration > 0 /\ KeysNonNegative) =>
    \A k \in -2..2 :
      applyAnimation(animation, applied.time + k * animation.duration, NoPick(animation), NoJunk)
        = applied.calls

\* C9: applyAnimation makes no setTransform call for a channel when the
\* animation's duration is zero or the channel's sampler has fewer than two
\* distinct time keys.
C9_SkipsDegenerateChannels ==
  applied.called =>
    \A c \in DOMAIN animation.channels :
      (animation.duration = 0 \/ Len(SamplerOf(c).times) < 2) =>
        \A k \in DOMAIN applied.calls : applied.calls[k].channel # c

\* The call wrote exactly the source value of the map entry e: the interpolant
\* is 0 or 1 and the key it selects is e's.
WritesExactly(call, sampler, e) ==
  /\ call.xform.v = Num(sampler.values[e.index + 1])
  /\ \/ call.t = Num(0) /\ call.prevIndex = e.index
     \/ call.t = Num(1) /\ call.nextIndex = e.index

\* C10 as stated: a call at a time equal to any keyframe time of an evaluated
\* channel's sampler (first, interior or last) writes exactly that keyframe's
\* source value. Stated for animations whose time keys are all >= 0.
C10_Original ==
  (applied.called /\ KeysNonNegative) =>
    \A k \in DOMAIN applied.calls :
      LET sampler == SamplerOf(applied.calls[k].channel) IN
      \A q \in DOMAIN sampler.times :
        sampler.times[q].time = applied.time =>
          WritesExactly(applied.calls[k], sampler, sampler.times[q])

\* C10 amended: that holds for every keyframe time below the duration in
\* magnitude; a time equal to the duration wraps to 0 and, for a sampler whose
\* keys are all >= 0, writes the first keyframe's value with interpolant 0.
C10_ExactBelowDuration ==
  applied.called =>
    \A k \in DOMAIN applied.calls :
      LET sampler == SamplerOf(applied.calls[k].channel) IN
      /\ \A q \in DOMAIN sampler.times :
           (sampler.times[q].time = applied.time /\ Abs(applied.time) < animation.duration)
             => WritesExactly(applied.calls[k], sampler, sampler.times[q])
      /\ (applied.time = animation.duration /\ animation.duration > 0
          /\ sampler.times[1].time >= 0)
             => /\ applied.calls[k].t = Num(0)
                /\ applied.calls[k].xform.v = Num(sampler.values[sampler.times[1].index + 1])

\* C10 witness: a rotation channel evaluated at the interior key of a
\* three-key sampler, with interpolant 1.
C10_Witness ==
  /\ applied.called
  /\ \E k \in DOMAIN applied.calls :
       LET sampler == SamplerOf(applied.calls[k].channel) IN
       /\ Len(sampler.times) = 3
       /\ sampler.times[2].time = applied.time
       /\ applied.calls[k].t = Num(1)
       /\ applied.calls[k].xform.kind = "rotate"
       /\ WritesExactly(applied.calls[k], sampler, sampler.times[2])

\* The value accessor of the channel's sampler has a component type that
\* createSampler converts.
Converted(c) == gltf.samplers[gltf.channels[c].sampler].componentType = "r_32f"

\* C11: a sampler whose value accessor has an unsupported component type has
\* an empty value array, and applyAnimation skips every channel that uses such
\* a sampler: it makes no read from the empty array and no setTransform call
\* for the channel, however many time keys the sampler has. The second part
\* is stated for animations whose time keys are all >= 0.
C11_SkipsEmptySamplers ==
  /\ \A j \in DOMAIN gltf.samplers :
       gltf.samplers[j].componentType # "r_32f" => animation.samplers[j].values = <<>>
  /\ (applied.called /\ KeysNonNegative) =>
       \A k \in DOMAIN applied.calls :
         /\ SamplerOf(applied.calls[k].channel).values # <<>>
         /\ ~applied.calls[k].outOfRange

\* C12: applyAnimation makes no setTransform call for a channel whose glTF
\* target path is weights or invalid. Stated for channels whose sampler was
\* converted and is LINEAR, in animations whose time keys are all >= 0.
C12_SkipsUnsupportedPaths ==
  (applied.called /\ KeysNonNegative) =>
    \A k \in DOMAIN applied.calls :
      (Converted(applied.calls[k].channel)
       /\ gltf.samplers[gltf.channels[applied.calls[k].channel].sampler].interpolation = "linear") =>
        gltf.channels[applied.calls[k].channel].path \notin {"weights", "invalid"}

\* C13: applyAnimation makes no setTransform call for a channel whose
\* sampler's interpolation mode is STEP or CUBIC. Stated for channels with a
\* supported target path whose sampler was converted, in animations whose time
\* keys are all >= 0.
C13_OnlyLinearEvaluated ==
  (applied.called /\ KeysNonNegative) =>
    \A k \in DOMAIN applied.calls :
      (Converted(applied.calls[k].channel)
       /\ gltf.channels[applied.calls[k].channel].path \in {"translation", "rotation", "scale"}) =>
        SamplerOf(applied.calls[k].channel).interpolation = "LINEAR"

\* The steps of the protocol: the loader's destruction, and an upload
\* completion (the only step that lowers the count).
LoaderDestruction == loaderAlive /\ ~loaderAlive'

Completion == mPendingUploads' = mPendingUploads - 1

C14_Step ==
  /\ (LoaderDestruction /\ mPendingUploads = 0) => cacheDeleted' = cacheDeleted + 1
  /\ (LoaderDestruction /\ mPendingUploads > 0) =>
       /\ cacheDeleted' = cacheDeleted
       /\ mLoaderDestroyed'
       /\ mPendingUploads' = mPendingUploads
  /\ (Completion /\ mPendingUploads' = 0) =>
       /\ mLoaderDestroyed => cacheDeleted' = cacheDeleted + 1
       /\ ~mLoaderDestroyed => cacheDeleted' = cacheDeleted
  /\ (Completion /\ mPendingUploads' # 0) => cacheDeleted' = cacheDeleted
  /\ (~LoaderDestruction /\ ~Completion) => cacheDeleted' = cacheDeleted
  /\ (loaderAlive' /\ mPendingUploads = 0 /\ mPendingUploads' > 0) => cacheDeleted' = 0

\* C14: the BlobCache follows ACTIVE -> LOADER_DESTROYED_PENDING -> DESTROYED
\* step by step. Destroying the loader with pending = 0 deletes the cache in
\* that step; destroying it with pending > 0 only sets the flag; a completion
\* that brings pending to 0 deletes the cache in that step iff the flag is
\* set; no other step deletes it; and while the loader is alive the cache is
\* never deleted, also when the count has reached 0 and rises again.
C14_ProtocolSteps ==
  /\ [](loaderAlive => (cacheDeleted = 0 /\ ~mLoaderDestroyed))
  /\ [][C14_Step]_vars

\* C14 witness: the loader was destroyed with uploads pending; the flag is set
\* and the cache is still there.
C14_Witness == ~loaderAlive /\ mLoaderDestroyed /\ cacheDeleted = 0 /\ mPendingUploads > 0

\* The wrapped time of the last applyAnimation call.
Wrapped == fmod(applied.time, animation.duration)

\* Key q of the map compared with the time w; every comparison with NaN is false.
KeyAtLeast(times, q, w) == ~w.nan /\ times[q].time * w.d >= w.n

KeyBelow(times, q, w) == ~w.nan /\ times[q].time * w.d < w.n

\* The keys the claim names for a call, with L the first key >= w.
PicksAsStated(call, w) ==
  LET times == SamplerOf(call.channel).times
      ge == {q \in DOMAIN times : KeyAtLeast(times, q, w)}
  IN /\ Len(times) >= 2
     /\ call.prevIndex = times[call.prev].index
     /\ call.nextIndex = times[call.next].index
     /\ IF ge = {} THEN call.prev = Len(times) /\ call.next = 1
        ELSE LET L == CHOOSE q \in ge : \A r \in ge : q <= r
             IN IF L = 1 THEN call.prev = 1 /\ call.next = 1
                ELSE /\ call.next = L
                     /\ call.prev = L - 1
                     /\ KeyBelow(times, call.prev, w)
                     /\ KeyAtLeast(times, call.next, w)

\* C15: for every channel applyAnimation evaluates (its sampler has at least
\* two distinct keys), with w the wrapped time and L the first key >= w: if
\* there is no such key then prev is the last key and next the first; if L is
\* the first key then prev = next = L; otherwise next = L, prev is the key
\* just before L and prev.time < w <= next.time.
C15_PicksKeys ==
  applied.called =>
    \A k \in DOMAIN applied.calls : PicksAsStated(applied.calls[k], Wrapped)

\* The same for the calls whose wrapped time is a number (a nonzero duration).
C15_KeySelection ==
  (applied.called /\ ~Wrapped.nan) =>
    \A k \in DOMAIN applied.calls : PicksAsStated(applied.calls[k], Wrapped)

\* The interval applyAnimation divides by, for a call's two keys.
IntervalOf(call) ==
  LET times == SamplerOf(call.channel).times
      d0 == times[call.next].time - times[call.prev].time
  IN IF d0 < 0 THEN d0 + animation.duration ELSE d0

\* C16: for every animation with a nonzero duration, every evaluated channel
\* and every input time, the interpolant t lies in [0, 1]: either the interval
\* is 0 and t is 0, or 0 <= wrapped time - prev.time <= interval.
C16_InterpolantInUnitInterval ==
  (applied.called /\ animation.duration > 0) =>
    \A k \in DOMAIN applied.calls :
      LET call == applied.calls[k]
          prevTime == SamplerOf(call.channel).times[call.prev].time
          offset == Wrapped.n - prevTime * Wrapped.d
      IN /\ ~call.t.nan
         /\ 0 <= call.t.n
         /\ call.t.n <= call.t.d
         /\ \/ IntervalOf(call) = 0 /\ call.t = Num(0)
            \/ 0 <= offset /\ offset <= IntervalOf(call) * Wrapped.d

\* The distinct time values of source sampler j, and the largest of them.
KeysOf(j) == {gltf.samplers[j].input[i] : i \in DOMAIN gltf.samplers[j].input}

LargestKey(j) == CHOOSE x \in KeysOf(j) : \A y \in KeysOf(j) : y <= x

\* The samplers with more than one distinct time key, and the largest key
\* found among them.
Extending == {j \in DOMAIN gltf.samplers : Cardinality(KeysOf(j)) > 1}

LargestExtendingKey ==
  LargestKey(CHOOSE j \in Extending : \A i \in Extending : LargestKey(i) <= LargestKey(j))

\* C17 as stated: the duration equals the maximum, over the samplers with
\* more than one distinct time key, of the sampler's largest key, and is 0
\* when there is no such sampler.
C17_Original ==
  animation.duration = IF Extending = {} THEN 0 ELSE LargestExtendingKey

\* C17 amended: the duration is the larger of 0 and that maximum, so it is
\* never negative; samplers with a single distinct key never extend it.
C17_DurationIsLargestKeyOrZero ==
  animation.duration = IF Extending = {} THEN 0
                       ELSE IF LargestExtendingKey > 0 THEN LargestExtendingKey ELSE 0

\* C17 witness: a sampler whose two time values are the same positive key is
\* the only one with keys, and the duration is 0.
C17_Witness ==
  /\ animation.duration = 0
  /\ Extending = {}
  /\ \E j \in DOMAIN gltf.samplers :
       /\ Len(gltf.samplers[j].input) = 2
       /\ Len(animation.samplers[j].times) = 1
       /\ animation.samplers[j].times[1].time > 0

\* The setTransform calls of a call record that target instance n.
WritesTo(calls, n) == {k \in DOMAIN calls : calls[k].node = n /\ ~calls[k].fault}

LastWrite(calls, n) == CHOOSE k \in WritesTo(calls, n) : \A i \in WritesTo(calls, n) : i <= k

C18_Step ==
  \A n \in Nodes :
    IF WritesTo(applied'.calls, n) = {}
    THEN transforms'[n] = transforms[n]
    ELSE transforms'[n] = applied'.calls[LastWrite(applied'.calls, n)].xform

\* C18: after one applyAnimation call the transform of each instance is the
\* one computed by the last channel, in channel order, that targets it and was
\* evaluated: earlier results for the instance are overwritten, not composed,
\* whatever the channels' transform kinds; an instance no evaluated channel
\* targets keeps the transform it had before the call.
C18_LastChannelWins == [][C18_Step]_vars

\* C18 witness: a rotation channel and a translation channel on the same
\* instance were both evaluated; the instance holds the translation, the other
\* instance was never written.
C18_Witness ==
  /\ applied.called
  /\ Len(applied.calls) = 2
  /\ applied.calls[1].node = applied.calls[2].node
  /\ applied.calls[1].xform.kind = "rotate"
  /\ applied.calls[2].xform.kind = "translate"
  /\ transforms[applied.calls[2].node] = applied.calls[2].xform
  /\ \E n \in Nodes : transforms[n] = Rest

\* The steps of a recorded call that issue a binding (dispatch its upload or
\* copy it), that handle a binding in any way, and that run computeTangents.
IssueSteps == {"setBufferAt", "setBuffer", "memcpyAnimation", "memcpyOrientation"}

BindingSteps == IssueSteps \cup {"addPendingUpload", "malformedBinding"}

TangentSteps == {"computeTangents", "computeTangentsUpload"}

Issued == Cardinality({k \in DOMAIN lastCall.steps : lastCall.steps[k] \in IssueSteps})

\* C19: within one loadResources call computeTangents starts only after every
\* buffer binding of the asset has been dispatched or copied: when the call is
\* past the orientation step, the uploads and copies issued are as many as the
\* asset has bindings; no binding is handled after computeTangents and no
\* upload is between its addPendingUpload and its dispatch when it starts; and
\* computeTangents does not run in a call that a binding made fail.
C19_TangentsAfterBindings ==
  /\ pc = "textures" => (Issued = cur.n /\ cur.i = cur.n)
  /\ \A k \in DOMAIN lastCall.steps :
       lastCall.steps[k] \in TangentSteps =>
         /\ \A i \in DOMAIN lastCall.steps : i > k => lastCall.steps[i] \notin BindingSteps
         /\ k > 1 /\ lastCall.steps[k - 1] # "addPendingUpload"
         /\ \A i \in DOMAIN lastCall.steps : lastCall.steps[i] # "malformedBinding"

\* C19 witness: computeTangents ran, and uploaded, after an upload and a copy
\* of the asset's two bindings were issued.
C19_Witness ==
  /\ pc = "textures"
  /\ cur.n = 2
  /\ lastCall.steps[Len(lastCall.steps)] = "computeTangentsUpload"
  /\ \E i, k \in DOMAIN lastCall.steps :
       lastCall.steps[i] = "setBufferAt" /\ lastCall.steps[k] = "memcpyOrientation"

\* The position (from 0) of the last occurrence of time value x in the time
\* array of source sampler j.
LastOccurrence(j, x) ==
  LET input == gltf.samplers[j].input
      at == {i \in DOMAIN input : input[i] = x}
  IN (CHOOSE i \in at : \A r \in at : r <= i) - 1

\* C20: the time-to-index map of every sampler has one entry per distinct
\* time value of the time array, sorted by time, and the entry's index is the
\* position of the value's last occurrence; a call reads, for each key it
\* selects, the source value at that position, and a call whose wrapped time
\* is a key of an evaluated sampler writes the source value stored at the last
\* occurrence of that time.
C20_DuplicatesKeepLastIndex ==
  /\ \A j \in DOMAIN gltf.samplers :
       LET times == animation.samplers[j].times IN
       /\ Len(times) = Cardinality(KeysOf(j))
       /\ \A q \in DOMAIN times :
            /\ times[q].time \in KeysOf(j)
            /\ times[q].index = LastOccurrence(j, times[q].time)
            /\ q > 1 => times[q - 1].time < times[q].time
  /\ applied.called =>
       \A k \in DOMAIN applied.calls :
         LET call == applied.calls[k]
             j == animation.channels[call.channel].sourceData
             times == animation.samplers[j].times
         IN /\ call.prevIndex = LastOccurrence(j, times[call.prev].time)
            /\ call.nextIndex = LastOccurrence(j, times[call.next].time)
            /\ \A q \in DOMAIN times :
                 (~Wrapped.nan /\ times[q].time * Wrapped.d = Wrapped.n) =>
                   call.xform.v = Num(gltf.samplers[j].output[LastOccurrence(j, times[q].time) + 1])

\* C20 witness: a time array holds the time of the call twice, with different
\* source values at the two positions, and the call wrote the later one.
C20_Witness ==
  /\ applied.called
  /\ ~Wrapped.nan
  /\ \E k \in DOMAIN applied.calls :
       LET j == animation.channels[applied.calls[k].channel].sourceData
           input == gltf.samplers[j].input
       IN \E a, b \in DOMAIN input :
            /\ a < b
            /\ input[a] = input[b]
            /\ input[a] * Wrapped.d = Wrapped.n
            /\ gltf.samplers[j].output[a] # gltf.samplers[j].output[b]
            /\ LastOccurrence(j, input[a]) = b - 1
            /\ applied.calls[k].xform.v = Num(gltf.samplers[j].output[b])

\* The bone matrices the skin should get: joint-world times inverse-bind at
\* every joint index.
BonesOf(skin) ==
  [i \in 1..Len(skin.joints) |->
     MatMul(worldTransforms[skin.joints[i]], skin.inverseBindMatrices[i])]

\* The number of setBones calls made for the skins before skin s.
RECURSIVE CallsBefore(_)
CallsBefore(s) == IF s <= 1 THEN 0 ELSE CallsBefore(s - 1) + Len(mSkins[s - 1].targets)

AllIdentity(skin) ==
  /\ \A i \in DOMAIN skin.joints : worldTransforms[skin.joints[i]] = Identity
  /\ \A i \in DOMAIN skin.inverseBindMatrices : skin.inverseBindMatrices[i] = Identity

\* C21: after updateBoneMatrices, every target of every skin got exactly one
\* setBones call, in skin order and target order, carrying as many matrices
\* as the skin has joints, the matrix at joint index i being the world
\* transform of joint i times the inverse-bind matrix i, in that order; a skin
\* whose joint transforms and inverse-bind matrices are all the identity
\* gets identity bone matrices only.
C21_BonesAreWorldTimesInverseBind ==
  bones.called =>
    /\ Len(bones.calls) = CallsBefore(Len(mSkins) + 1)
    /\ \A s \in DOMAIN mSkins : \A k \in DOMAIN mSkins[s].targets :
         LET call == bones.calls[CallsBefore(s) + k]
         IN /\ call.skin = s
            /\ call.target = mSkins[s].targets[k]
            /\ call.count = Len(mSkins[s].joints)
            /\ call.matrices = BonesOf(mSkins[s])
            /\ AllIdentity(mSkins[s]) =>
                 \A i \in DOMAIN call.matrices : call.matrices[i] = Identity

\* Two skins; the first has two joints with a non-identity world transform
\* and a non-identity inverse-bind matrix at the last joint, and two targets.
C21_Witness ==
  /\ bones.called
  /\ Len(mSkins) = 2
  /\ Len(mSkins[1].joints) = 2
  /\ Len(mSkins[1].targets) = 2
  /\ worldTransforms[mSkins[1].joints[2]] = <<"A">>
  /\ mSkins[1].inverseBindMatrices[2] = <<"P">>
  /\ Len(bones.calls) = 3
  /\ bones.calls[2].matrices[2] = <<"A", "P">>

\* All joints and inverse-bind matrices of a two-joint skin are the identity.
C21_IdentityWitness ==
  /\ bones.called
  /\ Len(mSkins[1].joints) = 2
  /\ mSkins[1].targets # <<>>
  /\ AllIdentity(mSkins[1])
  /\ bones.calls[1].matrices = <<Identity, Identity>>

\* The first step of a loadResources call, whether its buffer load succeeds
\* (the call goes on to the bindings) or fails (the call returns at once).
CallStarts == BeginLoad(FALSE)

FailsAtBufferLoad == CallStarts /\ pc' = "idle"

CacheDestruction == cacheDeleted' = cacheDeleted + 1

C22_Step ==
  /\ CallStarts =>
       /\ \E a \in Assets :
            /\ acquired' = [acquired EXCEPT ![a] = @ + 1]
            /\ mAssets' = Append(mAssets, a)
       /\ released' = released
  /\ FailsAtBufferLoad => SumOver(acquired', Assets) = SumOver(acquired, Assets) + 1
  /\ ~CallStarts => acquired' = acquired
  /\ CacheDestruction => released' = [a \in Assets |-> released[a] + acquired[a]]
  /\ ~CacheDestruction => released' = released

\* C22: acquisitions and releases of source data are balanced. The first step
\* of every loadResources call acquires the call's asset exactly once, also
\* when the call fails at the initial buffer load, and no other step
\* acquires; releases happen only in the step that destroys the BlobCache,
\* which releases every acquisition made, one release each; so nothing is
\* released while the cache exists, an asset loaded n times is released n
\* times once the cache is destroyed, and the releases of an asset never
\* exceed its acquisitions.
C22_AcquireReleaseBalanced ==
  /\ [](\A a \in Assets :
         /\ acquired[a] = CountOf(mAssets, a)
         /\ released[a] <= acquired[a]
         /\ cacheDeleted = 0 => released[a] = 0
         /\ cacheDeleted > 0 => released[a] = acquired[a])
  /\ [][C22_Step]_vars

\* C22 witness: the same asset was loaded twice, the loader was destroyed and
\* the cache with it: two acquisitions, two releases.
C22_Witness ==
  /\ cacheDeleted = 1
  /\ \E a \in Assets : acquired[a] = 2 /\ released[a] = 2

====
